---- MODULE Spec2Model ----
(***************************************************************************)
(* A model of Pharap/SizeDemo: the getSize function template of Size.h,    *)
(* the two byte-ratio alternatives the README discusses, and the Arduboy   *)
(* demo sketch that prints the lengths of three arrays.                    *)
(*                                                                         *)
(* A call site is an argument expression (its type, and for an array the   *)
(* object's contents) under one conditional-compilation branch and one     *)
(* ABI.  A call either fails to compile ("rejected": no function matches)  *)
(* or yields a value of type size_t.                                       *)
(***************************************************************************)
EXTENDS Integers, Sequences, FiniteSets, TLC

VARIABLES
    branch,   \* which #if defined(ARDUINO) branch of Size.h is compiled
    abi,      \* sizeof(int) and sizeof(pointer) of the target
    arg,      \* the argument expression of the call site
    mem,      \* the elements of the array object arg names
    result,   \* outcome of the last call
    callee,   \* which function the last call named
    calls,    \* number of getSize calls made on the array object
    first,    \* outcome of the first of those calls
    other,    \* the array declared as  int other[getSize(array)]
    pc,       \* position of the sketch
    frame,    \* what arduboy.nextFrame() returned in this loop() call
    ops,      \* Arduboy2 calls made by this loop() call, in order
    iter,     \* loop() calls begun
    shown     \* display() calls made

vars == <<branch, abi, arg, mem, result, callee, calls, first, other,
          pc, frame, ops, iter, shown>>

callVars == <<branch, abi, arg, mem, result, callee, calls, first, other>>
demoVars == <<pc, frame, ops, iter, shown>>

(***************************************************************************)
(* Bounds                                                                  *)
(***************************************************************************)
MaxLen == 300      \* longest array type of a call site
MaxMemLen == 3     \* longest array whose elements are tracked
MaxVal == 1        \* largest element value tracked
MaxCalls == 3      \* getSize calls made on one array object
MaxIter == 6       \* loop() calls

(***************************************************************************)
(* Types, ABIs and argument expressions                                    *)
(***************************************************************************)
Branches == {"ARDUINO", "HOSTED"}

AVR == [int |-> 2, ptr |-> 2]

ABIs == {AVR, [int |-> 4, ptr |-> 4], [int |-> 4, ptr |-> 8]}

ElemTypes == {"char", "int", "uint8_t", "unsigned char"}

Sizeof(a, t) == IF t = "int" THEN a.int ELSE 1

SizeTBits(a) == 8 * a.ptr

\* Conversion to the unsigned type size_t.  Every value of the model is
\* below 2^30, so only a 16-bit size_t can wrap.
ToSizeT(a, v) == IF SizeTBits(a) > 30 THEN v ELSE v % (2 ^ SizeTBits(a))

\* len of an array is its declared bound (0 is the GNU zero-length
\* extension); len of a pointer is the length of the array it points into,
\* which is no part of its type.
ArrayArgs == [kind : {"array"}, elem : ElemTypes, len : 0..MaxLen]

PointerArgs == [kind : {"pointer"}, elem : ElemTypes, len : {0}]

NullArgs == {[kind |-> "nullptr", elem |-> "nullptr_t", len |-> 0]}

ScalarArgs == [kind : {"scalar"}, elem : ElemTypes, len : {0}]

Args == ArrayArgs \cup PointerArgs \cup NullArgs \cup ScalarArgs

\* Array-to-pointer conversion.
Decay(a) == IF a.kind = "array" THEN [a EXCEPT !.kind = "pointer"] ELSE a

Contents(n) == [1..n -> 0..MaxVal]

NoResult == [status |-> "none", value |-> -1]

Rejected(m) == [status |-> "rejected", value |-> -1, reads |-> {}, mem |-> m]

Outcome(r) == [status |-> r.status, value |-> r.value]

(***************************************************************************)
(* Size.h                                                                  *)
(***************************************************************************)
DeducePointerToo(a) ==
    IF a.kind \in {"array", "pointer"} /\ a.len >= 1
    THEN [ok |-> TRUE, Type |-> a.elem, size |-> a.len]
    ELSE [ok |-> FALSE, Type |-> "", size |-> 0]

\* Template argument deduction of  const Type (&)[size]  against the
\* argument: only an array type matches, and an array of size zero is a
\* deduction failure.
Deduce(a) ==
    IF a.kind = "array" /\ a.len >= 1
    THEN [ok |-> TRUE, Type |-> a.elem, size |-> a.len]
    ELSE [ok |-> FALSE, Type |-> "", size |-> 0]

ToUint8(a, v) == v % 256

\* The return type of getSize.
ReturnType(a, v) == ToSizeT(a, v)

getSizeBytes(a, x, m) ==
    LET d == Deduce(x)
    IN  IF ~d.ok THEN Rejected(m)
        ELSE [status |-> "value",
              value |-> ReturnType(a, d.size * Sizeof(a, d.Type)),
              reads |-> {}, mem |-> m]

RECURSIVE UpToZero(_, _)
UpToZero(m, i) ==
    IF i > Len(m) \/ m[i] = 0 THEN 0 ELSE 1 + UpToZero(m, i + 1)

getSizeScan(a, x, m) ==
    LET d == Deduce(x)
    IN  IF ~d.ok THEN Rejected(m)
        ELSE [status |-> "value",
              value |-> IF Len(m) = d.size THEN UpToZero(m, 1) ELSE d.size,
              reads |-> IF Len(m) = d.size THEN 1..d.size ELSE {},
              mem |-> m]

getSizeNarrow(a, x, m) ==
    LET d == Deduce(x)
    IN  IF ~d.ok THEN Rejected(m)
        ELSE [status |-> "value", value |-> ToUint8(a, d.size),
              reads |-> {}, mem |-> m]

getSizeClobber(a, x, m) ==
    LET d == Deduce(x)
    IN  IF ~d.ok THEN Rejected(m)
        ELSE [status |-> "value", value |-> ReturnType(a, d.size),
              reads |-> {}, mem |-> [i \in DOMAIN m |-> 0]]

\* #if defined(ARDUINO): the parameter is unnamed, so the body can neither
\* read nor write the array it is bound to.
getSize_arduino(a, x, m) ==
    LET d == Deduce(x)
    IN  IF ~d.ok THEN Rejected(m)
        ELSE [status |-> "value", value |-> ReturnType(a, d.size),
              reads |-> {}, mem |-> m]

\* #else
getSize_std(a, x, m) ==
    LET d == Deduce(x)
    IN  IF ~d.ok THEN Rejected(m)
        ELSE [status |-> "value", value |-> ReturnType(a, d.size),
              reads |-> {}, mem |-> m]

getSize(b, a, x, m) ==
    IF b = "ARDUINO" THEN getSize_arduino(a, x, m) ELSE getSize_std(a, x, m)

(***************************************************************************)
(* README: the byte-ratio alternatives                                     *)
(***************************************************************************)
\* template< typename Type, std::size_t size >
\* getSize(const Type (&array)[size]) { return sizeof(array) / sizeof(array[0]); }
ratioGetSizeOffByOne(a, x, m) ==
    LET d == Deduce(x)
    IN  IF ~d.ok THEN Rejected(m)
        ELSE [status |-> "value",
              value |-> ToSizeT(a, (d.size * Sizeof(a, d.Type) - 1)
                                       \div Sizeof(a, d.Type)),
              reads |-> {}, mem |-> m]

ratioGetSize(a, x, m) ==
    LET d == Deduce(x)
    IN  IF ~d.ok THEN Rejected(m)
        ELSE [status |-> "value",
              value |-> ToSizeT(a, (d.size * Sizeof(a, d.Type))
                                       \div Sizeof(a, d.Type)),
              reads |-> {}, mem |-> m]

\* getSize(const int array[]): the parameter is const int *, so an int
\* array decays to match it, and an int pointer and nullptr match it too.
naiveAccepts(x) ==
    \/ Decay(x).kind = "pointer" /\ x.elem = "int"
    \/ x.kind = "nullptr"

naiveGetSizeOfArray(a, x, m) ==
    IF ~naiveAccepts(x) THEN Rejected(m)
    ELSE [status |-> "value",
          value |-> ToSizeT(a, (IF x.kind = "array"
                                THEN x.len * Sizeof(a, "int") ELSE a.ptr)
                                   \div Sizeof(a, "int")),
          reads |-> {}, mem |-> m]

naiveGetSize(a, x, m) ==
    IF ~naiveAccepts(x) THEN Rejected(m)
    ELSE [status |-> "value",
          value |-> ToSizeT(a, a.ptr \div Sizeof(a, "int")),
          reads |-> {}, mem |-> m]

(***************************************************************************)
(* Call sites: one argument expression, compiled against each function     *)
(***************************************************************************)
NoOther == [status |-> "none", len |-> 0]

DemoIdle ==
    /\ pc = "off"
    /\ frame = FALSE
    /\ ops = <<>>
    /\ iter = 0
    /\ shown = 0

Init ==
    /\ branch \in Branches
    /\ abi \in ABIs
    /\ arg \in Args
    /\ mem = <<>>
    /\ result = NoResult
    /\ callee = "none"
    /\ calls = 0
    /\ first = NoResult
    /\ other = NoOther
    /\ DemoIdle

\* size_t n = getSize(arg);
CallGetSize ==
    /\ callee' = "getSize"
    /\ result' = Outcome(getSize(branch, abi, arg, mem))
    /\ mem' = getSize(branch, abi, arg, mem).mem
    /\ UNCHANGED <<branch, abi, arg, calls, first, other>>
    /\ UNCHANGED demoVars

\* The same call against the README's templated byte-ratio version.
CallRatioGetSize ==
    /\ callee' = "ratio"
    /\ result' = Outcome(ratioGetSize(abi, arg, mem))
    /\ mem' = ratioGetSize(abi, arg, mem).mem
    /\ UNCHANGED <<branch, abi, arg, calls, first, other>>
    /\ UNCHANGED demoVars

\* The same call against the README's non-template version.
CallNaiveGetSize ==
    /\ callee' = "naive"
    /\ result' = Outcome(naiveGetSize(abi, arg, mem))
    /\ mem' = naiveGetSize(abi, arg, mem).mem
    /\ UNCHANGED <<branch, abi, arg, calls, first, other>>
    /\ UNCHANGED demoVars

\* const T * p = array;  and the call site now names p.
TakePointer ==
    /\ arg.kind = "array"
    /\ arg' = Decay(arg)
    /\ callee' = "none"
    /\ result' = NoResult
    /\ UNCHANGED <<branch, abi, mem, calls, first, other>>
    /\ UNCHANGED demoVars

Next == CallGetSize \/ CallRatioGetSize \/ CallNaiveGetSize \/ TakePointer

Spec == Init /\ [][Next]_vars

(***************************************************************************)
(* An array object at run time: stores into it, calls of getSize on it,    *)
(* and getSize(array) used as the bound of another array                   *)
(***************************************************************************)
InitMem ==
    /\ branch \in Branches
    /\ abi \in ABIs
    /\ arg \in [kind : {"array"}, elem : ElemTypes, len : 0..MaxMemLen]
    /\ mem \in Contents(arg.len)
    /\ result = NoResult
    /\ callee = "none"
    /\ calls = 0
    /\ first = NoResult
    /\ other = NoOther
    /\ DemoIdle

\* array[i] = v;
StoreElement ==
    \E i \in 1..Len(mem), v \in 0..MaxVal :
        /\ mem[i] # v
        /\ mem' = [mem EXCEPT ![i] = v]
        /\ UNCHANGED <<branch, abi, arg, result, callee, calls, first, other>>
        /\ UNCHANGED demoVars

\* size_t arraySize = getSize(array);
CallOnObject ==
    /\ calls < MaxCalls
    /\ callee' = "getSize"
    /\ result' = Outcome(getSize(branch, abi, arg, mem))
    /\ mem' = getSize(branch, abi, arg, mem).mem
    /\ calls' = calls + 1
    /\ first' = IF calls = 0 THEN result' ELSE first
    /\ UNCHANGED <<branch, abi, arg, other>>
    /\ UNCHANGED demoVars

\* int other[getSize(array)];  The bound must be a constant expression:
\* the call must compile, and its evaluation must read no element of the
\* (non-constant) array.
DeclareOther ==
    /\ other.status = "none"
    /\ LET r == getSize(branch, abi, arg, mem)
       IN  /\ r.status = "value"
           /\ other' = IF r.reads = {}
                       THEN [status |-> "declared", len |-> r.value]
                       ELSE [status |-> "illformed", len |-> 0]
    /\ UNCHANGED <<branch, abi, arg, mem, result, callee, calls, first>>
    /\ UNCHANGED demoVars

NextMem == StoreElement \/ CallOnObject \/ DeclareOther

SpecMem == InitMem /\ [][NextMem]_vars

(***************************************************************************)
(* The demo sketch                                                         *)
(***************************************************************************)
exampleA == [kind |-> "array", elem |-> "char", len |-> 8]

exampleB == [kind |-> "array", elem |-> "int", len |-> 4]

exampleC == [kind |-> "array", elem |-> "uint8_t", len |-> 10]

Op(o, t, n) == [op |-> o, text |-> t, num |-> n]

\* The value println receives: the array is const and zero-initialised.
SizeOf(x) == getSize(branch, abi, x, [i \in 1..x.len |-> 0]).value

InitDemo ==
    /\ branch = "ARDUINO"
    /\ abi = AVR
    /\ arg = exampleA
    /\ mem = <<>>
    /\ result = NoResult
    /\ callee = "none"
    /\ calls = 0
    /\ first = NoResult
    /\ other = NoOther
    /\ pc = "setup"
    /\ frame = FALSE
    /\ ops = <<>>
    /\ iter = 0
    /\ shown = 0

\* setup(): arduboy.begin();
Setup ==
    /\ pc = "setup"
    /\ pc' = "loop"
    /\ UNCHANGED <<frame, ops, iter, shown>>
    /\ UNCHANGED callVars

LoopEntryFallThrough ==
    /\ pc = "loop"
    /\ iter < MaxIter
    /\ iter' = iter + 1
    /\ ops' = <<>>
    /\ \E b \in BOOLEAN :
           /\ frame' = b
           /\ pc' = "clear"
    /\ UNCHANGED shown
    /\ UNCHANGED callVars

\* loop() is entered and arduboy.nextFrame() answers.
LoopEntry ==
    /\ pc = "loop"
    /\ iter < MaxIter
    /\ iter' = iter + 1
    /\ ops' = <<>>
    /\ \E b \in BOOLEAN :
           /\ frame' = b
           /\ pc' = IF b THEN "clear" ELSE "loop"
    /\ UNCHANGED shown
    /\ UNCHANGED callVars

Clear ==
    /\ pc = "clear"
    /\ ops' = Append(ops, Op("clear", "", -1))
    /\ pc' = "printA"
    /\ UNCHANGED <<frame, iter, shown>>
    /\ UNCHANGED callVars

PrintLabel(at, label, to) ==
    /\ pc = at
    /\ ops' = Append(ops, Op("print", label, -1))
    /\ pc' = to
    /\ UNCHANGED <<frame, iter, shown>>
    /\ UNCHANGED callVars

PrintlnSize(at, x, to) ==
    /\ pc = at
    /\ ops' = Append(ops, Op("println", "", SizeOf(x)))
    /\ pc' = to
    /\ UNCHANGED <<frame, iter, shown>>
    /\ UNCHANGED callVars

PrintA == PrintLabel("printA", "exampleA: ", "printlnA")

PrintlnA == PrintlnSize("printlnA", exampleA, "printB")

PrintB == PrintLabel("printB", "exampleB: ", "printlnB")

PrintlnB == PrintlnSize("printlnB", exampleB, "printC")

PrintC == PrintLabel("printC", "exampleC: ", "printlnC")

PrintlnC == PrintlnSize("printlnC", exampleC, "display")

Display ==
    /\ pc = "display"
    /\ ops' = Append(ops, Op("display", "", -1))
    /\ shown' = shown + 1
    /\ pc' = "loop"
    /\ UNCHANGED <<frame, iter>>
    /\ UNCHANGED callVars

NextDemo ==
    \/ Setup
    \/ LoopEntry
    \/ Clear
    \/ PrintA
    \/ PrintlnA
    \/ PrintB
    \/ PrintlnB
    \/ PrintC
    \/ PrintlnC
    \/ Display

SpecDemo == InitDemo /\ [][NextDemo]_vars

(***************************************************************************)
(* Properties                                                              *)
(***************************************************************************)
Value(n) == [status |-> "value", value |-> n]

Refused == [status |-> "rejected", value |-> -1]

C2_NonArrayRejected ==
    (callee = "getSize" /\ arg.kind # "array") => result = Refused

C2_Witness ==
    /\ callee = "getSize"
    /\ arg.kind = "pointer"
    /\ arg.len = 10
    /\ result = Refused

\* C3 as stated: every declared length from 0 up to a few hundred is
\* accepted and returned exactly.
C3_Original ==
    (callee = "getSize" /\ arg.kind = "array" /\ arg.len \in 0..MaxLen) =>
        result = Value(arg.len)

\* C3 as amended: every declared length from 1 up to a few hundred is
\* accepted and returned exactly, with no wrap-around in size_t; an array
\* of length 0 is not accepted.
C3_LengthsFromOneExact ==
    (callee = "getSize" /\ arg.kind = "array") =>
        IF arg.len >= 1
        THEN /\ result.status = "value"
             /\ result.value = arg.len
             /\ ToSizeT(abi, arg.len) = arg.len
        ELSE result = Refused

C3_Witness ==
    /\ callee = "getSize"
    /\ arg.kind = "array"
    /\ arg.len = MaxLen
    /\ abi = AVR
    /\ result = Value(MaxLen)

\* C4: the result of getSize on an array is the same for every element
\* type of that length; it is the length, not a byte count.
C4_ElementTypeIrrelevant ==
    (callee = "getSize" /\ arg.kind = "array") =>
        /\ \A t \in ElemTypes :
               Outcome(getSize(branch, abi, [arg EXCEPT !.elem = t], mem)) = result
        /\ arg = exampleB => result = Value(4)

C4_Witness ==
    /\ callee = "getSize"
    /\ arg = exampleB
    /\ abi = AVR
    /\ result = Value(4)

\* C5: the result of getSize is fixed by the array's type alone, whatever
\* the elements hold, and getSize(array) is accepted as the bound of
\* another array, which then has the same length.
C5_ConstantExpression ==
    /\ other.status # "illformed"
    /\ other.status = "declared" => other.len = arg.len
    /\ callee = "getSize" =>
           \A m \in Contents(arg.len) :
               Outcome(getSize(branch, abi, arg, m)) = result

C5_Witness ==
    /\ callee = "getSize"
    /\ other = [status |-> "declared", len |-> 3]
    /\ mem = <<1, 0, 1>>
    /\ result = Value(3)

\* C6: a call of getSize on an accepted array returns a value, changes
\* neither the array's elements nor anything else, and returns what the
\* first call on that array returned.
C6_PureAndTotal ==
    [][(calls' = calls + 1) =>
           /\ mem' = mem
           /\ <<branch, abi, arg, other>>' = <<branch, abi, arg, other>>
           /\ demoVars' = demoVars
           /\ arg.len >= 1 => result'.status = "value"
           /\ calls >= 1 => result' = first]_vars

C6_Witness ==
    /\ calls >= 2
    /\ mem = <<1, 0, 1>>
    /\ result = Value(3)
    /\ first = Value(3)

\* C7: the templated byte-ratio version accepts what getSize accepts and
\* computes (N * s) / s = N, the value getSize returns.
C7_RatioEquivalent ==
    /\ callee = "ratio" => result = Outcome(getSize(branch, abi, arg, mem))
    /\ callee = "getSize" => result = Outcome(ratioGetSize(abi, arg, mem))
    /\ (callee = "ratio" /\ arg.kind = "array" /\ arg.len >= 1) =>
           result = Value(arg.len)

C7_Witness ==
    /\ callee = "ratio"
    /\ arg = [kind |-> "array", elem |-> "int", len |-> 10]
    /\ abi.int = 4
    /\ result = Value(10)

\* C8: with 2-byte pointers and 2-byte int the non-template byte-ratio
\* function returns 1 for every int array, int pointer and nullptr, so it
\* disagrees with getSize on every int array whose length is not 1 (and
\* on every array of any type longer than 1, which it does not accept).
C8_NaiveReturnsOne ==
    (callee = "naive" /\ abi = AVR) =>
        /\ (arg.kind \in {"array", "pointer"} /\ arg.elem = "int") =>
               result = Value(1)
        /\ arg.kind = "nullptr" => result = Value(1)
        /\ (arg.kind = "array" /\ arg.elem = "int" /\ arg.len # 1) =>
               result # Outcome(getSize(branch, abi, arg, mem))
        /\ (arg.kind = "array" /\ arg.len > 1) =>
               result # Outcome(getSize(branch, abi, arg, mem))

C8_Witness ==
    /\ callee = "naive"
    /\ abi = AVR
    /\ arg = [kind |-> "array", elem |-> "int", len |-> 10]
    /\ result = Value(1)

FrameOps ==
    << Op("clear", "", -1),
       Op("print", "exampleA: ", -1), Op("println", "", 8),
       Op("print", "exampleB: ", -1), Op("println", "", 4),
       Op("print", "exampleC: ", -1), Op("println", "", 10),
       Op("display", "", -1) >>

\* C9: a loop() call in which nextFrame() is false makes no Arduboy2 call;
\* one in which it is true makes exactly clear, the lines exampleA 8,
\* exampleB 4, exampleC 10 in that order, then display.
C9_FrameSequence ==
    /\ ~frame => ops = <<>>
    /\ frame => /\ Len(ops) <= Len(FrameOps)
                /\ ops = SubSeq(FrameOps, 1, Len(ops))
    /\ (pc = "loop" /\ frame) => ops = FrameOps
    /\ (pc \notin {"loop", "setup"}) => frame

C9_Witness ==
    /\ pc = "loop"
    /\ frame
    /\ ops = FrameOps
    /\ shown < iter

\* C10: the ARDUINO branch and the other branch of Size.h accept the same
\* arguments and return the same value.
C10_BranchIrrelevant ==
    callee = "getSize" =>
        /\ result = Outcome(getSize_arduino(abi, arg, mem))
        /\ result = Outcome(getSize_std(abi, arg, mem))

C10_Witness ==
    /\ callee = "getSize"
    /\ branch = "HOSTED"
    /\ arg = [kind |-> "array", elem |-> "int", len |-> 10]
    /\ result = Value(10)

====
